---- MODULE Spec2Model ----
(***************************************************************************)
(* Model of bacify (src/src/main.rs): BackupVerifier restores the latest   *)
(* restic snapshot into a temporary directory and compares every file of   *)
(* the source tree with its restored counterpart.                          *)
(*                                                                         *)
(* A path or a file content is a sequence of one-character strings, so     *)
(* that parsing a path into components and splitting a file into lines     *)
(* are computed and not assumed.                                           *)
(***************************************************************************)
EXTENDS Naturals, Sequences, FiniteSets

VARIABLES
    pc,             \* position of BackupVerifier::main
    exclude_file,   \* ~/.backup_exclude as fs::read_to_string finds it
    tree,           \* what the walk of source_dir yields: path -> item
    restored,       \* the restored tree: counterpart path -> file state
    relative_path,  \* BackupVerifier.relative_path
    backup_time,    \* BackupVerifier.backup_time
    excludes,       \* BackupVerifier.excludes
    missing,        \* BackupVerifier.missing
    corrupt,        \* BackupVerifier.corrupt
    todo,           \* paths the WalkDir iterator has not yielded yet
    called,         \* path -> result of the verify_source_file call on it
    hashed,         \* live paths that self.sha256 was invoked on
    result,         \* what BackupVerifier::main returned
    output,         \* what fn main logged, and the exit status (as a string)
    q_path,         \* argument of a direct call of excluded
    q_result        \* what that call returned

vars == <<pc, exclude_file, tree, restored, relative_path, backup_time,
          excludes, missing, corrupt, todo, called, hashed, result, output,
          q_path, q_result>>

----------------------------------------------------------------------------
(* Bounds *)

\* longest path / pattern of the direct calls of excluded
MaxLen == 3
\* most exclude patterns in the direct calls of excluded
MaxPatterns == 2
\* most bytes in the exclude file
MaxBytes == 3
\* timestamps are 0..MaxTime
MaxTime == 1

----------------------------------------------------------------------------
(* Strings *)

SEP == "/"
NL == "\n"
\* a byte that is not valid UTF-8 (0xff in the test)
BAD == "0xff"

RECURSIVE SeqsUpTo(_, _)
SeqsUpTo(S, n) ==
    IF n = 0 THEN {<<>>}
    ELSE LET shorter == SeqsUpTo(S, n - 1)
         IN  shorter \cup {Append(s, c) : s \in shorter, c \in S}

IsPrefix(p, s) ==
    /\ Len(p) <= Len(s)
    /\ \A i \in 1..Len(p) : p[i] = s[i]

----------------------------------------------------------------------------
(* std::path: a path string parsed into its components *)

\* the RootDir component; no normal component contains a separator
RootDir == <<SEP>>

\* the normal components of s[i..], cur being the component read so far:
\* separators split, repeated and trailing separators give no component
RECURSIVE NormalsFrom(_, _, _)
NormalsFrom(s, i, cur) ==
    IF i > Len(s) THEN (IF cur = <<>> THEN <<>> ELSE <<cur>>)
    ELSE IF s[i] = SEP
         THEN (IF cur = <<>> THEN <<>> ELSE <<cur>>) \o NormalsFrom(s, i + 1, <<>>)
         ELSE NormalsFrom(s, i + 1, Append(cur, s[i]))

has_root(s) == Len(s) > 0 /\ s[1] = SEP

\* Path::components
Components(s) ==
    (IF has_root(s) THEN <<RootDir>> ELSE <<>>) \o NormalsFrom(s, 1, <<>>)

\* a plausible slip: compare the strings, not the components
starts_with_str(file, base) == IsPrefix(base, file)

\* Path::starts_with: base's components are a prefix of file's
starts_with(file, base) == IsPrefix(Components(base), Components(file))

\* BackupVerifier::excluded
excluded(file) ==
    \E i \in 1..Len(excludes) : starts_with(file, excludes[i])

----------------------------------------------------------------------------
(* BackupVerifier::load_excludes *)

\* str::lines: split at newlines, the final line ending being optional
RECURSIVE LinesFrom(_, _, _)
LinesFrom(s, i, cur) ==
    IF i > Len(s) THEN (IF cur = <<>> THEN <<>> ELSE <<cur>>)
    ELSE IF s[i] = NL
         THEN <<cur>> \o LinesFrom(s, i + 1, <<>>)
         ELSE LinesFrom(s, i + 1, Append(cur, s[i]))

lines(s) == LinesFrom(s, 1, <<>>)

\* fs::read_to_string: the file's state is the io::ErrorKind of opening it,
\* or its bytes; bytes that are not UTF-8 are ErrorKind::InvalidData
read_to_string(f) ==
    IF f.kind # "Bytes" THEN [ok |-> FALSE, kind |-> f.kind]
    ELSE IF \E i \in 1..Len(f.bytes) : f.bytes[i] = BAD
         THEN [ok |-> FALSE, kind |-> "InvalidData"]
         ELSE [ok |-> TRUE, contents |-> f.bytes]

\* a plausible slip: every read error means no excludes
load_excludes_lenient(f) ==
    LET file_contents == read_to_string(f)
    IN  IF file_contents.ok
        THEN [ok |-> TRUE, value |-> lines(file_contents.contents)]
        ELSE [ok |-> TRUE, value |-> <<>>]

load_excludes(f) ==
    LET file_contents == read_to_string(f)
    IN  IF file_contents.ok
        THEN [ok |-> TRUE, value |-> lines(file_contents.contents)]
        ELSE IF file_contents.kind = "NotFound"
             THEN [ok |-> TRUE, value |-> <<>>]
             ELSE [ok |-> FALSE, error |-> file_contents.kind]


----------------------------------------------------------------------------
(* The file systems a run reads *)

Times == 0..MaxTime
Contents == {"x", "y"}

\* snapshot["paths"][0] and the TempDir of the restore
source_dir == <<SEP, "s">>
backup_dir == <<SEP, "t">>

\* the paths under source_dir that the walk yields an item for
TreePaths == { source_dir \o <<SEP, "a">>, source_dir \o <<SEP, "a", "b">> }

\* An item of WalkDir's iterator: Err for an entry that cannot be read or
\* traversed, else an entry. WalkDir does not follow links, so a link is
\* yielded as itself; fs::metadata and Path::is_file do follow it, so a link
\* to a regular file carries the times and the content of its target.
\* The code compares a live file's modified time and content with the
\* counterpart's for equality only: the live ones are fixed and the
\* counterpart's range over Times and Contents.
Items ==
    [kind : {"unreadable", "dir", "symlink_other", "special"}]
    \cup [kind : {"file", "symlink_file"}, btime : Times, mtime : {0},
          content : {"x"}]

\* What lies in the restored tree at a counterpart path
Counterparts ==
    [kind : {"absent", "dir"}]
    \cup [kind : {"file"}, mtime : Times, content : Contents]

\* ~/.backup_exclude in a run of main
RunExcludeFiles ==
    { [kind |-> "NotFound"],
      [kind |-> "Bytes", bytes |-> <<BAD>>],
      [kind |-> "Bytes", bytes |-> source_dir \o <<SEP, "a", NL>>] }

\* Path::strip_prefix: the components after base's, or None
strip_prefix(file, base) ==
    LET fc == Components(file)
        bc == Components(base)
    IN  IF IsPrefix(bc, fc)
        THEN [some |-> TRUE, value |-> SubSeq(fc, Len(bc) + 1, Len(fc))]
        ELSE [some |-> FALSE]

\* PathBuf::join on components: an absolute path replaces self
join(base, rel) ==
    IF Len(rel) > 0 /\ rel[1] = RootDir THEN rel ELSE Components(base) \o rel

\* verify_source_file, lines 64-73: the counterpart of file; stripping
\* source_dir panics (expect) when file is not under it
counterpart_of(rel, file) ==
    LET stripped == strip_prefix(file, IF rel THEN source_dir ELSE <<SEP>>)
        relative_file ==
            IF rel THEN stripped.value
            ELSE IF stripped.some THEN stripped.value ELSE Components(file)
    IN  join(backup_dir, relative_file)

\* Path::is_file: the path, links followed, is a regular file
is_file(f) == f.kind \in {"file", "symlink_file"}

\* BackupVerifier::sha256 of a readable file
sha256(f) == <<"sha256", f.content>>


----------------------------------------------------------------------------
(* BackupVerifier::verify_source_file *)

\* line 99, with < for <=
born_by_backup_strict(f) == f.btime < backup_time

\* line 99: the file was created at or before the backup
born_by_backup(f) == f.btime <= backup_time

\* line 84, hashing whatever the timestamps
same_modified_always(f, c) == TRUE

\* line 84: the modified times are the same
same_modified(f, c) == f.mtime = c.mtime

\* line 89, with the branches swapped
same_digest_swapped(f, c) == sha256(f) # sha256(c)

\* line 89
same_digest(f, c) == sha256(f) = sha256(c)

\* the kinds of io::Error a call can meet: none, fs::metadata or created
\* failing (lines 75-76), File::open or io::copy failing in sha256
IoOutcomes == {"ok", "metadata", "sha256"}

\* line 96 followed by a copy of line 101
verify_source_file_both(self, file, io) ==
    LET f == tree[file]
        c == restored[counterpart_of(relative_path, file)]
    IN  IF io = "metadata" THEN [self EXCEPT !.ret = "Err"]
        ELSE IF is_file(c)
        THEN IF same_modified(f, c)
             THEN IF io = "sha256"
                  THEN [self EXCEPT !.ret = "Err",
                                    !.hashed = self.hashed \cup {file}]
                  ELSE IF same_digest(f, c)
                  THEN [self EXCEPT !.ret = "Ok",
                                    !.hashed = self.hashed \cup {file}]
                  ELSE [self EXCEPT !.ret = "Ok",
                                    !.hashed = self.hashed \cup {file},
                                    !.corrupt = self.corrupt \cup {file},
                                    !.missing = self.missing \cup {file}]
             ELSE [self EXCEPT !.ret = "Ok"]
        ELSE IF born_by_backup(f)
        THEN [self EXCEPT !.ret = "Ok",
                          !.missing = self.missing \cup {file}]
        ELSE [self EXCEPT !.ret = "Ok"]

\* lines 96 and 101 assigning a one-element set instead of inserting
verify_source_file_assign(self, file, io) ==
    LET f == tree[file]
        c == restored[counterpart_of(relative_path, file)]
    IN  IF io = "metadata" THEN [self EXCEPT !.ret = "Err"]
        ELSE IF is_file(c)
        THEN IF same_modified(f, c)
             THEN IF io = "sha256"
                  THEN [self EXCEPT !.ret = "Err",
                                    !.hashed = self.hashed \cup {file}]
                  ELSE IF same_digest(f, c)
                  THEN [self EXCEPT !.ret = "Ok",
                                    !.hashed = self.hashed \cup {file}]
                  ELSE [self EXCEPT !.ret = "Ok",
                                    !.hashed = self.hashed \cup {file},
                                    !.corrupt = {file}]
             ELSE [self EXCEPT !.ret = "Ok"]
        ELSE IF born_by_backup(f)
        THEN [self EXCEPT !.ret = "Ok", !.missing = {file}]
        ELSE [self EXCEPT !.ret = "Ok"]

\* self is the verifier's missing, corrupt and the files hashed so far; the
\* value is self after the call, with the call's result in ret
verify_source_file(self, file, io) ==
    LET f == tree[file]
        c == restored[counterpart_of(relative_path, file)]
    IN  IF io = "metadata" THEN [self EXCEPT !.ret = "Err"]
        ELSE IF is_file(c)
        THEN IF same_modified(f, c)
             THEN IF io = "sha256"
                  THEN [self EXCEPT !.ret = "Err",
                                    !.hashed = self.hashed \cup {file}]
                  ELSE IF same_digest(f, c)
                  THEN [self EXCEPT !.ret = "Ok",
                                    !.hashed = self.hashed \cup {file}]
                  ELSE [self EXCEPT !.ret = "Ok",
                                    !.hashed = self.hashed \cup {file},
                                    !.corrupt = self.corrupt \cup {file}]
             ELSE [self EXCEPT !.ret = "Ok"]
        ELSE IF born_by_backup(f)
        THEN [self EXCEPT !.ret = "Ok",
                          !.missing = self.missing \cup {file}]
        ELSE [self EXCEPT !.ret = "Ok"]

\* only the missing set decides
verdict_missing_only(m, c) ==
    IF m # {} THEN "Err: Verification failed" ELSE "Ok"

\* BackupVerifier::verdict
verdict(m, c) ==
    LET after_missing == IF m # {} THEN "Err: Verification failed" ELSE "Ok"
    IN  IF c # {} THEN "Err: Verification failed" ELSE after_missing


----------------------------------------------------------------------------
(* A run of fn main *)

\* BackupVerifier::new
New ==
    /\ missing = {}
    /\ corrupt = {}
    /\ excludes = <<>>
    /\ backup_time = MaxTime

NoCalls ==
    /\ todo = TreePaths
    /\ called = [p \in TreePaths |-> "none"]
    /\ hashed = {}
    /\ result = "none"
    /\ output = [log |-> "none", status |-> "none"]

Init ==
    /\ pc = "snapshot"
    /\ New
    /\ NoCalls
    /\ exclude_file \in RunExcludeFiles
    /\ relative_path \in BOOLEAN
    /\ tree \in [TreePaths -> Items]
    /\ restored \in [{counterpart_of(relative_path, p) : p \in TreePaths}
                        -> Counterparts]
    /\ q_path = <<>>
    /\ q_result = "none"

\* what the run never writes
Environment == <<exclude_file, tree, restored, relative_path, q_path, q_result>>

\* main returns r
Return(r) ==
    /\ result' = r
    /\ pc' = "returned"

\* BackupVerifier::main, lines 120-158: the latest snapshot's metadata. It
\* fails when restic gives no usable snapshot or the source directory is
\* none (lines 120-149), or when the backup is older than max_age
Snapshot ==
    /\ pc = "snapshot"
    /\ \/ \E t \in Times :
            /\ backup_time' = t
            /\ pc' = "load_excludes"
            /\ UNCHANGED result
       \/ /\ \E e \in {"Err: snapshot", "Err: Backup is too old"} : Return(e)
          /\ UNCHANGED backup_time
    /\ UNCHANGED <<Environment, excludes, missing, corrupt, todo, called,
                   hashed, output>>

\* lines 160-163
LoadExcludes ==
    /\ pc = "load_excludes"
    /\ LET loaded == load_excludes(exclude_file)
       IN  IF loaded.ok
           THEN /\ excludes' = loaded.value
                /\ pc' = "restore"
                /\ UNCHANGED result
           ELSE /\ Return("Err: io")
                /\ UNCHANGED excludes
    /\ UNCHANGED <<Environment, backup_time, missing, corrupt, todo, called,
                   hashed, output>>

\* lines 165-174: restic stats, the TempDir, restore; with_prefix and the
\* spawning of restic may fail, restic's exit status is not looked at
Restore ==
    /\ pc = "restore"
    /\ \/ /\ pc' = "verify"
          /\ UNCHANGED result
       \/ Return("Err: io")
    /\ UNCHANGED <<Environment, backup_time, excludes, missing, corrupt, todo,
                   called, hashed, output>>

\* line 195: filter_map(|e| e.ok()) drops the Err items of the walk;
\* line 196: filter(|e| e.path().is_file()) drops what is no file
passes_filters(item) == item.kind # "unreadable" /\ is_file(item)

\* BackupVerifier::verify, one item of the walk (lines 193-204)
VerifyItem ==
    /\ pc = "verify"
    /\ \E file \in todo :
        /\ todo' = todo \ {file}
        /\ IF passes_filters(tree[file]) /\ ~excluded(file)
           THEN \E io \in IoOutcomes :
                LET self == [ret |-> "none", missing |-> missing,
                             corrupt |-> corrupt, hashed |-> hashed]
                    after == verify_source_file(self, file, io)
                IN  /\ missing' = after.missing
                    /\ corrupt' = after.corrupt
                    /\ hashed' = after.hashed
                    /\ called' = [called EXCEPT ![file] = after.ret]
                    /\ IF after.ret = "Err"
                       THEN Return("Err: io")
                       ELSE UNCHANGED <<pc, result>>
           ELSE UNCHANGED <<missing, corrupt, hashed, called, pc, result>>
    /\ UNCHANGED <<Environment, backup_time, excludes, output>>

\* verify, line 205: the walk is over
VerifyReturn ==
    /\ pc = "verify"
    /\ todo = {}
    /\ pc' = "verdict"
    /\ UNCHANGED <<Environment, backup_time, excludes, missing, corrupt, todo,
                   called, hashed, result, output>>

\* main, line 177
Verdict ==
    /\ pc = "verdict"
    /\ Return(verdict(missing, corrupt))
    /\ UNCHANGED <<Environment, backup_time, excludes, missing, corrupt, todo,
                   called, hashed, output>>

\* fn main, lines 253-259
Exit ==
    /\ pc = "returned"
    /\ pc' = "exit"
    /\ output' = IF result = "Ok"
                 THEN [log |-> "Verification succeeded.", status |-> "0"]
                 ELSE [log |-> "Error", status |-> "1"]
    /\ UNCHANGED <<Environment, backup_time, excludes, missing, corrupt, todo,
                   called, hashed, result>>

Next ==
    \/ Snapshot
    \/ LoadExcludes
    \/ Restore
    \/ VerifyItem
    \/ VerifyReturn
    \/ Verdict
    \/ Exit

Spec == Init /\ [][Next]_vars


----------------------------------------------------------------------------
(* Direct calls of excluded and of load_excludes, as the tests make them *)

PathChars == {SEP, "a"}
PathStrings == SeqsUpTo(PathChars, MaxLen)

FileBytes == {SEP, "a", NL, BAD}
ExcludeFiles ==
    [kind : {"NotFound", "PermissionDenied", "IsADirectory"}]
    \cup [kind : {"Bytes"}, bytes : SeqsUpTo(FileBytes, MaxBytes)]

\* a verifier that walks nothing
Idle ==
    /\ missing = {}
    /\ corrupt = {}
    /\ backup_time = MaxTime
    /\ NoCalls
    /\ relative_path = FALSE
    /\ tree = [p \in TreePaths |-> [kind |-> "dir"]]
    /\ restored = [c \in {counterpart_of(FALSE, p) : p \in TreePaths}
                        |-> [kind |-> "absent"]]

\* tests::test_excluded_*: new, excludes.push, excluded(path)
InitExcluded ==
    /\ pc = "call_excluded"
    /\ Idle
    /\ excludes \in SeqsUpTo(PathStrings, MaxPatterns)
    /\ exclude_file = [kind |-> "NotFound"]
    /\ q_path \in PathStrings
    /\ q_result = "none"

CallExcluded ==
    /\ pc = "call_excluded"
    /\ q_result' = excluded(q_path)
    /\ pc' = "called_excluded"
    /\ UNCHANGED <<exclude_file, tree, restored, relative_path, backup_time,
                   excludes, missing, corrupt, todo, called, hashed, result,
                   output, q_path>>

SpecExcluded == InitExcluded /\ [][CallExcluded]_vars

\* tests::test_load_excludes_*: new, load_excludes(path)
InitLoadExcludes ==
    /\ pc = "call_load_excludes"
    /\ Idle
    /\ excludes = <<>>
    /\ exclude_file \in ExcludeFiles
    /\ q_path = <<>>
    /\ q_result = "none"

CallLoadExcludes ==
    /\ pc = "call_load_excludes"
    /\ q_result' = load_excludes(exclude_file)
    /\ pc' = "called_load_excludes"
    /\ UNCHANGED <<exclude_file, tree, restored, relative_path, backup_time,
                   excludes, missing, corrupt, todo, called, hashed, result,
                   output, q_path>>

SpecLoadExcludes == InitLoadExcludes /\ [][CallLoadExcludes]_vars


----------------------------------------------------------------------------
(* Properties *)

\* the restored counterpart of a live path
cp(p) == restored[counterpart_of(relative_path, p)]

\* the walk yielded every item and no call failed
WalkCompleted == todo = {} /\ \A p \in TreePaths : called[p] # "Err"

\* C1: a file that verify_source_file was called on and whose counterpart is
\* no file is in missing exactly if it was created at or before the backup
\* time, and is never in corrupt; a newer one is in neither set.
C1_MissingIffOldEnough ==
    \A p \in TreePaths :
        (called[p] = "Ok" /\ ~is_file(cp(p)))
            => /\ (p \in missing) <=> (tree[p].btime <= backup_time)
               /\ p \notin corrupt

\* both cases of C1 in one run: an old file reported, a new one not
C1_Witness ==
    \E p, q \in TreePaths :
        /\ called[p] = "Ok" /\ called[q] = "Ok"
        /\ cp(p).kind = "absent" /\ ~is_file(cp(q))
        /\ tree[p].btime <= backup_time /\ p \in missing
        /\ tree[q].btime > backup_time /\ q \notin missing

\* C2: a file the call succeeded on, with a counterpart of the same modified
\* time, is in corrupt exactly if the two SHA-256 digests differ, and is
\* never in missing.
C2_CorruptIffDigestsDiffer ==
    \A p \in TreePaths :
        (called[p] = "Ok" /\ is_file(cp(p)) /\ tree[p].mtime = cp(p).mtime)
            => /\ (p \in corrupt) <=> (sha256(tree[p]) # sha256(cp(p)))
               /\ p \notin missing

\* both cases of C2 in one run
C2_Witness ==
    \E p, q \in TreePaths :
        /\ called[p] = "Ok" /\ called[q] = "Ok"
        /\ is_file(cp(p)) /\ tree[p].mtime = cp(p).mtime
        /\ is_file(cp(q)) /\ tree[q].mtime = cp(q).mtime
        /\ tree[p].content # cp(p).content /\ p \in corrupt
        /\ tree[q].content = cp(q).content /\ q \notin corrupt

\* C3: a file whose counterpart has another modified time is in neither set
\* whatever the contents, and sha256 is invoked only on files whose
\* counterpart is a file with the same modified time.
C3_DifferentMtimeMatched ==
    /\ \A p \in TreePaths :
        (called[p] # "none" /\ is_file(cp(p)) /\ tree[p].mtime # cp(p).mtime)
            => p \notin missing /\ p \notin corrupt /\ p \notin hashed
    /\ \A p \in hashed : is_file(cp(p)) /\ tree[p].mtime = cp(p).mtime

\* a file with other content and another modified time, passed as matched,
\* next to a file that was hashed
C3_Witness ==
    \E p, q \in TreePaths :
        /\ called[p] = "Ok" /\ is_file(cp(p))
        /\ tree[p].mtime # cp(p).mtime /\ tree[p].content # cp(p).content
        /\ p \notin corrupt /\ p \notin hashed
        /\ q \in hashed

\* a pattern that is a string prefix of the path, the next character of the
\* path continuing the pattern's last component
Sibling(pat, path) ==
    /\ Len(pat) > 0 /\ pat[Len(pat)] # SEP
    /\ IsPrefix(pat, path)
    /\ Len(path) > Len(pat) /\ path[Len(pat) + 1] # SEP

\* C4: excluded(path) is true exactly if the components of some pattern are
\* a prefix of the path's components: so for a pattern equal to the path and
\* for a path that continues a pattern with a separator, and not when every
\* pattern is a sibling of the path or when there is no pattern.
C4_ExcludedIffComponentPrefix ==
    pc = "called_excluded" =>
        /\ q_result = (\E i \in 1..Len(excludes) :
                            IsPrefix(Components(excludes[i]), Components(q_path)))
        /\ (\E i \in 1..Len(excludes) : excludes[i] = q_path) => q_result
        /\ (\E i \in 1..Len(excludes) :
                IsPrefix(Append(excludes[i], SEP), q_path)) => q_result
        /\ (\A i \in 1..Len(excludes) : Sibling(excludes[i], q_path))
                => ~q_result
        /\ Len(excludes) = 0 => ~q_result

\* /a does not exclude /aa
C4_Witness ==
    /\ pc = "called_excluded"
    /\ excludes = << <<SEP, "a">> >>
    /\ q_path = <<SEP, "a", "a">>
    /\ q_result = FALSE

\* C5: when the walk has completed, main returns Ok exactly if missing and
\* corrupt are both empty and else the one error Verification failed; Ok is
\* never returned with a file in either set.
C5_VerdictOkIffBothEmpty ==
    /\ (WalkCompleted /\ pc \in {"returned", "exit"})
            => result = IF missing = {} /\ corrupt = {}
                        THEN "Ok" ELSE "Err: Verification failed"
    /\ result = "Ok" => missing = {} /\ corrupt = {}
    /\ output.status = "0" => missing = {} /\ corrupt = {}

\* verdict failed a run in which only corrupt is non-empty
C5_Witness ==
    /\ pc = "returned" /\ WalkCompleted
    /\ missing = {} /\ corrupt # {}
    /\ result = "Err: Verification failed"

\* C6: once the walk has yielded an item that could not be read or
\* traversed, verdict is not reached and the run does not succeed.
C6_WalkErrorAborts ==
    (\E p \in TreePaths \ todo : tree[p].kind = "unreadable")
        => /\ pc # "verdict"
           /\ result # "Ok"
           /\ output.log # "Verification succeeded."

\* C7: load_excludes returns Ok of no patterns when the file is not found,
\* and an error for every other failure to read it, bytes that are not
\* UTF-8 among them.
C7_LoadExcludesErrors ==
    pc = "called_load_excludes" =>
        /\ exclude_file.kind = "NotFound"
                => q_result = [ok |-> TRUE, value |-> <<>>]
        /\ exclude_file.kind \notin {"NotFound", "Bytes"} => ~q_result.ok
        /\ (/\ exclude_file.kind = "Bytes"
            /\ \E i \in 1..Len(exclude_file.bytes) : exclude_file.bytes[i] = BAD)
                => ~q_result.ok

\* the test's file: bytes that are not UTF-8 give an error
C7_Witness ==
    /\ pc = "called_load_excludes"
    /\ exclude_file = [kind |-> "Bytes", bytes |-> <<BAD, BAD, BAD>>]
    /\ q_result.ok = FALSE

\* C8: verify_source_file is called on regular files only; a link, a
\* directory or a special file is never in missing or corrupt.
C8_OnlyRegularFiles ==
    \A p \in TreePaths :
        tree[p].kind # "file"
            => called[p] = "none" /\ p \notin missing /\ p \notin corrupt

\* C9: no path is in both missing and corrupt.
C9_Disjoint == missing \cap corrupt = {}

\* a run with a file in each set
C9_Witness == missing # {} /\ corrupt # {}

\* the verifier before any call
EmptySelf == [ret |-> "none", missing |-> {}, corrupt |-> {}, hashed |-> {}]

\* the files of the tree that verify calls verify_source_file on
Verified == {p \in TreePaths : passes_filters(tree[p]) /\ ~excluded(p)}

\* C10: when the walk has completed, in whatever order, missing and corrupt
\* are the unions of what each file alone contributes to an empty verifier.
C10_OrderIndependent ==
    (WalkCompleted /\ pc \in {"verdict", "returned", "exit"})
        => /\ missing = UNION {verify_source_file(EmptySelf, p, "ok").missing :
                                    p \in Verified}
           /\ corrupt = UNION {verify_source_file(EmptySelf, p, "ok").corrupt :
                                    p \in Verified}

\* a completed walk of two verified files, both of them reported
C10_Witness ==
    /\ WalkCompleted /\ pc = "verdict"
    /\ Cardinality(Verified) = 2
    /\ Cardinality(missing \cup corrupt) = 2


====
